---- MODULE Spec2Model ----
(***************************************************************************)
(* Capped STO module (runtime/src/sto_capped.rs) of the Polymesh runtime.  *)
(* The storage items of decl_storage! are the variables, every dispatchable*)
(* of decl_module! is one action.  The runtime has no storage rollback: a  *)
(* dispatchable that returns Err keeps every write it made before the      *)
(* error, so each action writes exactly what the code wrote up to the      *)
(* point where it returned.                                                *)
(***************************************************************************)
EXTENDS Integers, Sequences, FiniteSets, TLC

\* ------------------------------------------------------------------ bounds
BalanceBits == 3        \* width of T::TokenBalance in the model
MaxValue == 2           \* largest payment amount a caller offers
MaxTime == 2            \* the timestamp runs over 0..MaxTime
MaxStoCount == 2        \* launches per token explored

\* --------------------------------------------------------- program values
\* u32::MAX is TwoPow16 * TwoPow16 - 1
TwoPow16 == 65536
MaxTokenBalance == 2^BalanceBits - 1

\* T::AccountId values: the owner of the token, another signer, and
\* AccountId::default()
Owner == "owner"
Investor == "investor"
Accounts == {Owner, Investor}
DefaultAccount == "default"

\* the tickers callers pass: "a" and "A" as byte vectors, "X" for the ERC20
LaunchTickers == {<<97>>, <<65>>}
RawTickers == {<<97>>}
Erc20Tickers == {<<88>>}
\* the currencies of the allow-list specification: "X", "Y"
AllowListTickers == {<<88>>, <<89>>}
Buyers == {Investor}
StoIds == {0, 1}
Values == 1..MaxValue
Caps == {2 * MaxValue}
Rates == {2}
StartDates == {1}
EndDates == {MaxTime - 1}

None == <<>>
Some(x) == <<x>>

\* ----------------------------------------------------------- error values
Ok == "Ok"
Unauthorized == "Sender must be the token owner"
StoCountOverflow == "overflow in calculating next sto count"
NotOpen == "STO has not started or already ended"
InsufficientFunds == "Insufficient funds"
OverflowTokens == "overflow in calculating tokens"
OverflowSold == "overflow while calculating tokens sold"
CapExceeded == "There's not enough tokens"
MintFailed == "mint failed"
PaymentFailed == "transfer failed"
AlreadyStarted == "STO is already started"
NotAuthorised == "Not authorised to execute this function"
NoChange == "Already in that state"
CountOverflow == "overflow new token count value"
CountUnderflow == "underflow new token count value"
CurrencyNotAllowed == "Given token is not a permitted investment currency"
NotActive == "STO is not active at the moment"
InsufficientBalance == "Insufficient balance"

VARIABLES
    now,                \* timestamp::Now
    StosByToken,        \* (ticker, sto_id) -> STO, stored keys only
    StoCount,           \* ticker -> u32, stored keys only
    AllowedTokens,      \* (ticker, sto_id, index) -> erc20 ticker
    TokenIndexForSTO,   \* (ticker, sto_id, erc20 ticker) -> index
    TokensCountForSto,  \* (ticker, sto_id) -> u32
    last,               \* the dispatched call, its Result, the requests it
                        \* made to the ledgers and the event it deposited
    enabled,            \* history: the (ticker, sto_id, erc20 ticker) whose
                        \* most recent successful toggle was an enable
    Tokens              \* registry.rs: ticker -> RegistryEntry, stored keys

vars == <<now, StosByToken, StoCount, AllowedTokens, TokenIndexForSTO,
          TokensCountForSto, last, enabled, Tokens>>

storage == <<StosByToken, StoCount, AllowedTokens, TokenIndexForSTO,
             TokensCountForSto>>

\* ---------------------------------------------------------------- helpers
bytes_to_upper(s) ==
    [i \in DOMAIN s |-> IF s[i] >= 97 /\ s[i] <= 122 THEN s[i] - 32 ELSE s[i]]

\* asset::is_owner: the token "A" is registered to Owner, "B" to nobody
asset_is_owner(ticker, sender) == ticker = <<65>> /\ sender = Owner

is_owner_anyone(_ticker, sender) == TRUE

is_owner_of_registered(_ticker, sender) ==
    LET ticker == bytes_to_upper(_ticker)
    IN  asset_is_owner(ticker, Owner)

is_owner(_ticker, sender) ==
    LET ticker == bytes_to_upper(_ticker)
    IN  asset_is_owner(ticker, sender)

insert(map, key, value) ==
    [k \in (DOMAIN map) \cup {key} |-> IF k = key THEN value ELSE map[k]]

DefaultSTO ==
    [beneficiary |-> DefaultAccount, cap |-> 0, sold |-> 0, rate |-> 0,
     start_date |-> 0, end_date |-> 0, active |-> FALSE]

stos_by_token(key) ==
    IF key \in DOMAIN StosByToken THEN StosByToken[key] ELSE DefaultSTO

sto_count(ticker) ==
    IF ticker \in DOMAIN StoCount THEN StoCount[ticker] ELSE 0

allowed_tokens(key) ==
    IF key \in DOMAIN AllowedTokens THEN AllowedTokens[key] ELSE <<>>

token_index_for_sto(key) ==
    IF key \in DOMAIN TokenIndexForSTO THEN Some(TokenIndexForSTO[key]) ELSE None

tokens_count_for_sto(key) ==
    IF key \in DOMAIN TokensCountForSto THEN TokensCountForSto[key] ELSE 0

sa(x) == x % (MaxTokenBalance + 1)

checked_add_u32(a, b) ==
    IF (a + b) \div TwoPow16 >= TwoPow16 THEN None ELSE Some(a + b)

checked_sub_u32(a, b) == IF a - b < 0 THEN None ELSE Some(a - b)

checked_add(a, b) == IF a + b > MaxTokenBalance THEN None ELSE Some(a + b)

checked_mul_wrapping(a, b) == Some((a * b) % (MaxTokenBalance + 1))

checked_mul(a, b) == IF a * b > MaxTokenBalance THEN None ELSE Some(a * b)

is_open_no_end(t, sto) == t >= sto.start_date

\* ensure!(now >= start_date && now <= end_date, ...)
is_open(t, sto) == t >= sto.start_date /\ t <= sto.end_date

new_sold_overwrites(sto, token_conversion) == checked_add(0, token_conversion)

\* selected_sto.sold.checked_add(&token_conversion)
new_sold(sto, token_conversion) == checked_add(sto.sold, token_conversion)

within_cap_unchecked(sold, cap) == TRUE

\* ensure!(selected_sto.sold <= selected_sto.cap, ...)
within_cap(sold, cap) == sold <= cap

may_configure_any_time(t, sto) == TRUE

\* ensure!(now < start_date || !active, ...)
may_configure(t, sto) == t < sto.start_date \/ ~sto.active

new_sto_inactive(beneficiary, cap, rate, start_date, end_date) == [DefaultSTO EXCEPT !.beneficiary = beneficiary, !.cap = cap, !.rate = rate, !.start_date = start_date, !.end_date = end_date]

\* let sto = STO { beneficiary, cap, sold: 0, rate, start_date, end_date,
\* active: true } of launch_sto
new_sto(beneficiary, cap, rate, start_date, end_date) == [beneficiary |-> beneficiary, cap |-> cap, sold |-> sa(0), rate |-> rate, start_date |-> start_date, end_date |-> end_date, active |-> TRUE]

updated_sto_rebuilt(selected_sto, sold) == [DefaultSTO EXCEPT !.sold = sold]

\* selected_sto.sold = ...; <StosByToken<T>>::insert(.., selected_sto): the
\* record a purchase writes back
updated_sto(selected_sto, sold) == [selected_sto EXCEPT !.sold = sold]

NoEvent == <<>>

Returns(op, args, result, effects, event) ==
    last' = [op |-> op, args |-> args, result |-> result,
             effects |-> effects, event |-> event]

\* ------------------------------------------------------------------- Init
Init ==
    /\ now = 0
    /\ StosByToken = <<>>
    /\ StoCount = <<>>
    /\ AllowedTokens = <<>>
    /\ TokenIndexForSTO = <<>>
    /\ TokensCountForSto = <<>>
    /\ enabled = {}
    /\ Tokens = <<>>
    /\ last = [op |-> "genesis", args |-> <<>>, result |-> Ok,
               effects |-> <<>>, event |-> NoEvent]

\* ---------------------------------------------------------------- actions
\* timestamp::set, the inherent of every block: the time never goes back
set_timestamp(t) ==
    /\ t > now
    /\ now' = t
    /\ UNCHANGED <<storage, enabled, Tokens>>
    /\ Returns("set_timestamp", <<t>>, Ok, <<>>, NoEvent)

launch_sto(origin, _ticker, beneficiary, cap, rate, start_date, end_date) ==
    LET sender == origin
        ticker == bytes_to_upper(_ticker)
        sto == new_sto(beneficiary, cap, rate, start_date, end_date)
        count == sto_count(ticker)
        new_sto_count == checked_add_u32(count, 1)
        args == <<origin, _ticker, beneficiary, cap, rate, start_date, end_date>>
    IN  /\ count < MaxStoCount
        /\ UNCHANGED <<now, AllowedTokens, TokenIndexForSTO, TokensCountForSto,
                       enabled, Tokens>>
        /\ IF ~is_owner(ticker, sender)
           THEN /\ UNCHANGED <<StosByToken, StoCount>>
                /\ Returns("launch_sto", args, Unauthorized, <<>>, NoEvent)
           ELSE IF new_sto_count = None
           THEN /\ UNCHANGED <<StosByToken, StoCount>>
                /\ Returns("launch_sto", args, StoCountOverflow, <<>>, NoEvent)
           ELSE /\ StosByToken' = insert(StosByToken, <<ticker, count>>, sto)
                /\ StoCount' = insert(StoCount, ticker, new_sto_count[1])
                /\ Returns("launch_sto", args, Ok, <<>>, NoEvent)

\* The collaborators' answers are inputs of the call: sender_balance is what
\* free_balance returns, mint_ok and transfer_ok whether the asset module's
\* _mint_from_sto and the balances module's transfer return Ok.
buy_tokens(origin, _ticker, sto_id, value, sender_balance, mint_ok, transfer_ok) ==
    LET sender == origin
        ticker == bytes_to_upper(_ticker)
        selected_sto == stos_by_token(<<ticker, sto_id>>)
        token_conversion == checked_mul(sa(value), sa(selected_sto.rate))
        sold == IF token_conversion = None THEN None
                ELSE new_sold(selected_sto, token_conversion[1])
        mint == <<"mint", ticker, sender, token_conversion[1]>>
        transfer == <<"transfer", sender, selected_sto.beneficiary, value>>
        args == <<origin, _ticker, sto_id, value>>
    IN  /\ UNCHANGED <<now, StoCount, AllowedTokens, TokenIndexForSTO,
                       TokensCountForSto, enabled, Tokens>>
        /\ IF ~is_open(now, selected_sto)
           THEN /\ UNCHANGED StosByToken
                /\ Returns("buy_tokens", args, NotOpen, <<>>, NoEvent)
           ELSE IF ~(sender_balance >= value)
           THEN /\ UNCHANGED StosByToken
                /\ Returns("buy_tokens", args, InsufficientFunds, <<>>, NoEvent)
           ELSE IF token_conversion = None
           THEN /\ UNCHANGED StosByToken
                /\ Returns("buy_tokens", args, OverflowTokens, <<>>, NoEvent)
           ELSE IF sold = None
           THEN /\ UNCHANGED StosByToken
                /\ Returns("buy_tokens", args, OverflowSold, <<>>, NoEvent)
           ELSE IF ~within_cap(sold[1], selected_sto.cap)
           THEN /\ UNCHANGED StosByToken
                /\ Returns("buy_tokens", args, CapExceeded, <<>>, NoEvent)
           ELSE IF ~mint_ok
           THEN /\ UNCHANGED StosByToken
                /\ Returns("buy_tokens", args, MintFailed, <<>>, NoEvent)
           ELSE IF ~transfer_ok
           THEN /\ UNCHANGED StosByToken
                /\ Returns("buy_tokens", args, PaymentFailed, <<mint>>, NoEvent)
           ELSE /\ StosByToken' = insert(StosByToken, <<ticker, sto_id>>,
                                         updated_sto(selected_sto, sold[1]))
                /\ Returns("buy_tokens", args, Ok, <<mint, transfer>>, NoEvent)

modify_allowed_tokens(origin, _ticker, sto_id, erc20_ticker, modify_status) ==
    LET sender == origin
        ticker == bytes_to_upper(_ticker)
        selected_sto == stos_by_token(<<ticker, sto_id>>)
        token_index == token_index_for_sto(<<ticker, sto_id, erc20_ticker>>)
        token_count == tokens_count_for_sto(<<ticker, sto_id>>)
        current_status == IF token_index = None THEN FALSE ELSE TRUE
        new_count == IF modify_status THEN checked_add_u32(token_count, 1)
                     ELSE checked_sub_u32(token_count, 1)
        event == <<"ModifyAllowedTokens", ticker, erc20_ticker, sto_id,
                   modify_status>>
        args == <<origin, _ticker, sto_id, erc20_ticker, modify_status>>
    IN  /\ UNCHANGED <<now, StosByToken, StoCount, Tokens>>
        /\ IF ~may_configure(now, selected_sto)
           THEN /\ UNCHANGED <<AllowedTokens, TokenIndexForSTO, TokensCountForSto,
                             enabled>>
                /\ Returns("modify_allowed_tokens", args, AlreadyStarted, <<>>,
                           NoEvent)
           ELSE IF ~is_owner(ticker, sender)
           THEN /\ UNCHANGED <<AllowedTokens, TokenIndexForSTO, TokensCountForSto,
                             enabled>>
                /\ Returns("modify_allowed_tokens", args, NotAuthorised, <<>>,
                           NoEvent)
           ELSE IF ~(current_status # modify_status)
           THEN /\ UNCHANGED <<AllowedTokens, TokenIndexForSTO, TokensCountForSto,
                             enabled>>
                /\ Returns("modify_allowed_tokens", args, NoChange, <<>>, NoEvent)
           ELSE IF new_count = None
           THEN /\ UNCHANGED <<AllowedTokens, TokenIndexForSTO, TokensCountForSto,
                             enabled>>
                /\ Returns("modify_allowed_tokens", args,
                           IF modify_status THEN CountOverflow ELSE CountUnderflow,
                           <<>>, NoEvent)
           ELSE /\ TokenIndexForSTO' =
                       insert(TokenIndexForSTO, <<ticker, sto_id, erc20_ticker>>,
                              new_count[1])
                /\ AllowedTokens' =
                       insert(AllowedTokens, <<ticker, sto_id, new_count[1]>>,
                              IF modify_status THEN erc20_ticker ELSE <<>>)
                /\ TokensCountForSto' =
                       insert(TokensCountForSto, <<ticker, sto_id>>, new_count[1])
                /\ enabled' = IF modify_status
                              THEN enabled \cup {<<ticker, sto_id, erc20_ticker>>}
                              ELSE enabled \ {<<ticker, sto_id, erc20_ticker>>}
                /\ Returns("modify_allowed_tokens", args, Ok, <<>>, event)

\* sender_balance is what ERC20Trait::balanceOf returns, mint_ok and
\* transfer_ok whether _mint_from_sto and ERC20Trait::transfer return Ok.
buy_tokens_by_erc20(origin, _ticker, sto_id, value, erc20_ticker, sender_balance, mint_ok, transfer_ok) ==
    LET sender == origin
        ticker == bytes_to_upper(_ticker)
        selected_sto == stos_by_token(<<ticker, sto_id>>)
        token_conversion == checked_mul(value, sa(selected_sto.rate))
        sold == IF token_conversion = None THEN None
                ELSE new_sold(selected_sto, token_conversion[1])
        mint == IF mint_ok THEN <<<<"mint", ticker, sender, token_conversion[1]>>>>
                ELSE <<>>
        transfer == <<"erc20_transfer", sender, erc20_ticker,
                      selected_sto.beneficiary, value>>
        args == <<origin, _ticker, sto_id, value, erc20_ticker>>
    IN  /\ UNCHANGED <<now, StoCount, AllowedTokens, TokenIndexForSTO,
                       TokensCountForSto, enabled, Tokens>>
        /\ IF ~(token_index_for_sto(<<ticker, sto_id, erc20_ticker>>) # None)
           THEN /\ UNCHANGED StosByToken
                /\ Returns("buy_tokens_by_erc20", args, CurrencyNotAllowed, <<>>,
                           NoEvent)
           ELSE IF ~is_open(now, selected_sto)
           THEN /\ UNCHANGED StosByToken
                /\ Returns("buy_tokens_by_erc20", args, NotOpen, <<>>, NoEvent)
           ELSE IF ~selected_sto.active
           THEN /\ UNCHANGED StosByToken
                /\ Returns("buy_tokens_by_erc20", args, NotActive, <<>>, NoEvent)
           ELSE IF ~(sender_balance >= value)
           THEN /\ UNCHANGED StosByToken
                /\ Returns("buy_tokens_by_erc20", args, InsufficientBalance, <<>>,
                           NoEvent)
           ELSE IF token_conversion = None
           THEN /\ UNCHANGED StosByToken
                /\ Returns("buy_tokens_by_erc20", args, OverflowTokens, <<>>,
                           NoEvent)
           ELSE IF sold = None
           THEN /\ UNCHANGED StosByToken
                /\ Returns("buy_tokens_by_erc20", args, OverflowSold, <<>>, NoEvent)
           ELSE IF ~within_cap(sold[1], selected_sto.cap)
           THEN /\ UNCHANGED StosByToken
                /\ Returns("buy_tokens_by_erc20", args, CapExceeded, <<>>, NoEvent)
           ELSE IF ~transfer_ok
           THEN /\ UNCHANGED StosByToken
                /\ Returns("buy_tokens_by_erc20", args, PaymentFailed, mint, NoEvent)
           ELSE /\ StosByToken' = insert(StosByToken, <<ticker, sto_id>>,
                                         updated_sto(selected_sto, sold[1]))
                /\ Returns("buy_tokens_by_erc20", args, Ok,
                           Append(mint, transfer), NoEvent)

\* ------------------------------------------------------------ registry.rs
\* the tickers put and get are called with: "a", "A", "b", "B", "aB", "Ab"
RegistryTickers == {<<97>>, <<65>>, <<98>>, <<66>>, <<97, 66>>, <<65, 98>>}
\* TokenType::AssetToken and TokenType::Erc20Token as u32
TokenTypes == {0, 2}
RegistryEntries == [token_type : TokenTypes, owner : Accounts]
TickerExists == "Token ticker exists"

put_key_raw(ticker) == ticker

\* let ticker = utils::bytes_to_upper(ticker.as_slice()) of put
put_key(ticker) == bytes_to_upper(ticker)

\* let ticker = utils::bytes_to_upper(ticker.as_slice()) of get
get_key(ticker) == bytes_to_upper(ticker)

\* Module::get: the Option it returns is recorded in last.effects
registry_get(_ticker) ==
    LET ticker == get_key(_ticker)
    IN  /\ UNCHANGED <<now, storage, enabled, Tokens>>
        /\ Returns("registry_get", <<_ticker>>, Ok,
                   IF ticker \in DOMAIN Tokens THEN Some(Tokens[ticker])
                   ELSE None, NoEvent)

registry_put(_ticker, entry) ==
    LET ticker == put_key(_ticker)
    IN  /\ UNCHANGED <<now, storage, enabled>>
        /\ IF ~(ticker \notin DOMAIN Tokens)
           THEN /\ UNCHANGED Tokens
                /\ Returns("registry_put", <<_ticker, entry>>, TickerExists,
                           <<>>, NoEvent)
           ELSE /\ Tokens' = insert(Tokens, ticker, entry)
                /\ Returns("registry_put", <<_ticker, entry>>, Ok, <<>>,
                           NoEvent)

NextRegistry ==
    \/ \E _ticker \in RegistryTickers : registry_get(_ticker)
    \/ \E _ticker \in RegistryTickers, entry \in RegistryEntries :
          registry_put(_ticker, entry)

SpecRegistry == Init /\ [][NextRegistry]_vars

Next ==
    \/ \E t \in 1..MaxTime : set_timestamp(t)
    \/ \E origin \in Accounts, _ticker \in LaunchTickers, beneficiary \in {Owner},
          cap \in Caps, rate \in Rates, start_date \in StartDates,
          end_date \in EndDates :
          launch_sto(origin, _ticker, beneficiary, cap, rate, start_date, end_date)
    \/ \E origin \in Buyers, _ticker \in RawTickers, sto_id \in StoIds,
          value \in Values, sender_balance \in {0, MaxValue}, mint_ok \in BOOLEAN,
          transfer_ok \in BOOLEAN :
          buy_tokens(origin, _ticker, sto_id, value, sender_balance, mint_ok,
                     transfer_ok)
    \/ \E origin \in Accounts, _ticker \in RawTickers, sto_id \in StoIds,
          erc20_ticker \in Erc20Tickers, modify_status \in BOOLEAN :
          modify_allowed_tokens(origin, _ticker, sto_id, erc20_ticker,
                                modify_status)
    \/ \E origin \in Buyers, _ticker \in RawTickers, sto_id \in StoIds,
          value \in Values, erc20_ticker \in Erc20Tickers,
          sender_balance \in {0, MaxValue}, mint_ok \in BOOLEAN, transfer_ok \in BOOLEAN :
          buy_tokens_by_erc20(origin, _ticker, sto_id, value, erc20_ticker,
                              sender_balance, mint_ok, transfer_ok)

Spec == Init /\ [][Next]_vars

\* The calls with sale terms that reach the top of the token-balance type: a
\* rate of half the range and a cap of the maximum.
OverflowRates == {2 ^ (BalanceBits - 1)}
OverflowCaps == {MaxTokenBalance}

NextOverflow ==
    \/ \E t \in 1..MaxTime : set_timestamp(t)
    \/ \E origin \in Accounts, _ticker \in LaunchTickers, beneficiary \in {Owner},
          cap \in OverflowCaps, rate \in OverflowRates, start_date \in StartDates,
          end_date \in EndDates :
          launch_sto(origin, _ticker, beneficiary, cap, rate, start_date, end_date)
    \/ \E origin \in Buyers, _ticker \in RawTickers, sto_id \in StoIds,
          value \in Values, sender_balance \in {0, MaxValue}, mint_ok \in BOOLEAN,
          transfer_ok \in BOOLEAN :
          buy_tokens(origin, _ticker, sto_id, value, sender_balance, mint_ok,
                     transfer_ok)
    \/ \E origin \in Accounts, _ticker \in RawTickers, sto_id \in StoIds,
          erc20_ticker \in Erc20Tickers, modify_status \in BOOLEAN :
          modify_allowed_tokens(origin, _ticker, sto_id, erc20_ticker,
                                modify_status)
    \/ \E origin \in Buyers, _ticker \in RawTickers, sto_id \in StoIds,
          value \in Values, erc20_ticker \in Erc20Tickers,
          sender_balance \in {0, MaxValue}, mint_ok \in BOOLEAN, transfer_ok \in BOOLEAN :
          buy_tokens_by_erc20(origin, _ticker, sto_id, value, erc20_ticker,
                              sender_balance, mint_ok, transfer_ok)

SpecOverflow == Init /\ [][NextOverflow]_vars

\* The owner's and the investor's allow-list calls with two currencies.
NextAllowList ==
    \/ \E t \in 1..MaxTime : set_timestamp(t)
    \/ \E origin \in Accounts, _ticker \in LaunchTickers, beneficiary \in {Owner},
          cap \in Caps, rate \in Rates, start_date \in StartDates,
          end_date \in EndDates :
          launch_sto(origin, _ticker, beneficiary, cap, rate, start_date, end_date)
    \/ \E origin \in Accounts, _ticker \in RawTickers, sto_id \in StoIds,
          erc20_ticker \in AllowListTickers, modify_status \in BOOLEAN :
          modify_allowed_tokens(origin, _ticker, sto_id, erc20_ticker,
                                modify_status)

SpecAllowList == Init /\ [][NextAllowList]_vars

\* ------------------------------------------- vocabulary of the properties
Tickers == {bytes_to_upper(t) : t \in LaunchTickers}
SaleKeys == Tickers \X (StoIds \cup (0..MaxStoCount))
LaunchedKeys == {k \in SaleKeys : k[2] < sto_count(k[1])}
sold_of(k) == stos_by_token(k).sold
IsPurchase(c) == c.op \in {"buy_tokens", "buy_tokens_by_erc20"}
KeyOf(c) == <<bytes_to_upper(c.args[2]), c.args[3]>>
ValueOf(c) == c.args[4]
\* of a modify_allowed_tokens call: the reverse-index key and the new status
CurrencyKeyOf(c) == <<bytes_to_upper(c.args[2]), c.args[3], c.args[4]>>
StatusOf(c) == c.args[5]
Minted(c) == \E i \in DOMAIN c.effects :
                 c.effects[i][1] = "mint" /\ c.effects[i][4] > 0
Paid(c) == \E i \in DOMAIN c.effects :
               c.effects[i][1] \in {"transfer", "erc20_transfer"}
HasMint(c) == \E i \in DOMAIN c.effects : c.effects[i][1] = "mint"
\* the currencies of the properties, the positions they can take
Currencies == Erc20Tickers \cup AllowListTickers
Positions == 1..(Cardinality(Currencies) + 1)
IndexedCurrencies(k) ==
    {c \in Currencies : token_index_for_sto(<<k[1], k[2], c>>) # None}
\* the allow-list items of sale k
AllowListOf(k) ==
    <<[j \in {i \in DOMAIN AllowedTokens : i[1] = k[1] /\ i[2] = k[2]}
           |-> AllowedTokens[j]],
      [j \in {i \in DOMAIN TokenIndexForSTO : i[1] = k[1] /\ i[2] = k[2]}
           |-> TokenIndexForSTO[j]],
      tokens_count_for_sto(k)>>
\* the terms of sale k: its record without the running total
TermsOf(k) ==
    [f \in {"beneficiary", "cap", "rate", "start_date", "end_date"}
         |-> stos_by_token(k)[f]]
\* the errors a purchase returns before it reaches the arithmetic
BeforeOverflowCheck == {CurrencyNotAllowed, NotOpen, NotActive,
                        InsufficientFunds, InsufficientBalance}
\* the errors a purchase returns before it reaches the cap check
BeforeCapCheck == {CurrencyNotAllowed, NotOpen, NotActive, InsufficientFunds,
                   InsufficientBalance, OverflowTokens, OverflowSold}

\* C1: every stored sale has 0 <= sold <= cap; a purchase on either path
\* whose new total sold + payment_amount * rate exceeds cap is rejected, by
\* CapExceeded unless an earlier check rejects it, without a mint or a
\* transfer and with the storage (sold included) unchanged, and CapExceeded
\* is returned only for a total that exceeds cap.
C1_CapInvariant ==
    /\ [](\A k \in DOMAIN StosByToken :
              /\ 0 <= StosByToken[k].sold
              /\ StosByToken[k].sold <= StosByToken[k].cap)
    /\ [][IsPurchase(last') =>
            LET sto == stos_by_token(KeyOf(last'))
                total == sto.sold + ValueOf(last') * sto.rate
            IN  /\ total > sto.cap =>
                       /\ last'.result \in BeforeCapCheck \cup {CapExceeded}
                       /\ last'.effects = <<>>
                       /\ UNCHANGED storage
                /\ last'.result = CapExceeded =>
                       /\ total > sto.cap
                       /\ last'.effects = <<>>
                       /\ UNCHANGED storage]_vars

\* a purchase rejected by the cap check on a sale that has already sold
C1_Witness ==
    /\ IsPurchase(last)
    /\ last.result = CapExceeded
    /\ KeyOf(last) \in LaunchedKeys
    /\ stos_by_token(KeyOf(last)).sold > 0

\* C2: a purchase on a launched sale never leaves tokens minted without the
\* payment made: when the call minted tokens, it also transferred the
\* payment (a failed transfer leaves nothing minted).
C2_AtomicPurchase ==
    IsPurchase(last) /\ KeyOf(last) \in LaunchedKeys /\ Minted(last)
        => Paid(last) /\ last.result = Ok

\* C3: no step lowers the sold of any sale; a successful purchase of
\* payment_amount raises the sold of its sale by exactly
\* payment_amount * rate and changes no other sale's sold; every failed
\* call and every other call leaves every sold unchanged.
C3_Monotonic ==
    [][/\ \A k \in SaleKeys : sold_of(k)' >= sold_of(k)
       /\ IF IsPurchase(last') /\ last'.result = Ok
          THEN \A k \in SaleKeys :
                   sold_of(k)' =
                       IF k = KeyOf(last')
                       THEN sold_of(k) + ValueOf(last') * stos_by_token(k).rate
                       ELSE sold_of(k)
          ELSE \A k \in SaleKeys : sold_of(k)' = sold_of(k)]_vars

\* a successful purchase on a sale that had sold tokens before
C3_Witness ==
    /\ IsPurchase(last)
    /\ last.result = Ok
    /\ KeyOf(last) \in LaunchedKeys
    /\ sold_of(KeyOf(last)) >
           ValueOf(last) * stos_by_token(KeyOf(last)).rate

\* C4: a purchase on either path made when now < start_date or
\* now > end_date of its sale is rejected (NotOpen, or CurrencyNotAllowed on
\* the ERC20 path), mints nothing, transfers nothing and leaves the storage
\* unchanged; once now > end_date of a sale its sold does not change.
C4_TimeWindow ==
    [][/\ LET sto == stos_by_token(KeyOf(last'))
          IN  IsPurchase(last') /\ (now < sto.start_date \/ now > sto.end_date)
                  => /\ last'.result \in {NotOpen, CurrencyNotAllowed}
                     /\ last'.op = "buy_tokens" => last'.result = NotOpen
                     /\ last'.effects = <<>>
                     /\ UNCHANGED <<storage, now>>
       /\ \A k \in SaleKeys :
              now > stos_by_token(k).end_date => sold_of(k)' = sold_of(k)]_vars

\* a purchase rejected after the end of a launched sale that has sold
C4_Witness ==
    /\ IsPurchase(last)
    /\ last.result = NotOpen
    /\ KeyOf(last) \in LaunchedKeys
    /\ now > stos_by_token(KeyOf(last)).end_date
    /\ sold_of(KeyOf(last)) > 0

\* C5: after a successful modify_allowed_tokens(..., false) on a launched
\* sale the reverse index token_index_for_sto of that currency is absent.
C5_RoundTrip ==
    (/\ last.op = "modify_allowed_tokens"
     /\ last.result = Ok
     /\ StatusOf(last) = FALSE
     /\ KeyOf(last) \in LaunchedKeys)
        => token_index_for_sto(CurrencyKeyOf(last)) = None

\* C6: buy_tokens_by_erc20 with a currency that is not currently enabled
\* (never enabled, or disabled by its most recent successful toggle) is not
\* admitted: it fails, mints nothing and transfers nothing.
C6_OnlyEnabledCurrency ==
    last.op = "buy_tokens_by_erc20"
    /\ <<KeyOf(last)[1], KeyOf(last)[2], last.args[5]>> \notin enabled
        => last.result # Ok /\ last.effects = <<>>

\* C7: an owner's modify_allowed_tokens on a launched sale that passes the
\* timing check and asks for the membership the currency already has fails
\* with NoChange, leaves the three allow-list items unchanged and deposits
\* no event.
C7_NoChangeGuard ==
    [][LET sto == stos_by_token(KeyOf(last'))
       IN  /\ last'.op = "modify_allowed_tokens"
           /\ asset_is_owner(KeyOf(last')[1], last'.args[1])
           /\ (now < sto.start_date \/ ~sto.active)
           /\ KeyOf(last') \in LaunchedKeys
           /\ StatusOf(last') = (CurrencyKeyOf(last') \in enabled)
           => /\ last'.result = NoChange
              /\ last'.event = NoEvent
              /\ UNCHANGED <<AllowedTokens, TokenIndexForSTO,
                             TokensCountForSto>>]_vars

\* C8: launch_sto by an account that does not own the upper-cased token
\* fails with Unauthorized and changes no storage item: no sale record is
\* inserted and the sale counter keeps its value.
C8_LaunchUnauthorized ==
    [][last'.op = "launch_sto"
       /\ ~asset_is_owner(bytes_to_upper(last'.args[2]), last'.args[1])
           => /\ last'.result = Unauthorized
              /\ UNCHANGED <<storage, now>>]_vars

\* a non-owner's launch rejected when the token already has a sale
C8_Witness ==
    /\ last.op = "launch_sto"
    /\ last.args[1] = Investor
    /\ last.result = Unauthorized
    /\ sto_count(bytes_to_upper(last.args[2])) > 0

\* C9 as claimed: modify_allowed_tokens by a non-owner fails with
\* "Not authorised", whatever the time and the state of the sale.
C9_AlwaysUnauthorized ==
    last.op = "modify_allowed_tokens"
    /\ ~asset_is_owner(KeyOf(last)[1], last.args[1])
        => last.result = NotAuthorised

\* C9 amended: modify_allowed_tokens by a non-owner always fails, deposits no
\* event and changes no storage item; the error is "Not authorised" when
\* now < start_date or the sale is not active (a missing sale included), and
\* "STO is already started" otherwise.
C9_NonOwnerRejected ==
    [][LET sto == stos_by_token(KeyOf(last'))
       IN  last'.op = "modify_allowed_tokens"
           /\ ~asset_is_owner(KeyOf(last')[1], last'.args[1])
           => /\ last'.result = IF now < sto.start_date \/ ~sto.active
                                THEN NotAuthorised ELSE AlreadyStarted
              /\ last'.event = NoEvent
              /\ UNCHANGED <<storage, now, enabled>>]_vars

\* a non-owner rejected with "Not authorised" on a launched sale whose
\* allow-list the owner has already edited
C9_Witness ==
    /\ last.op = "modify_allowed_tokens"
    /\ last.args[1] = Investor
    /\ last.result = NotAuthorised
    /\ KeyOf(last) \in LaunchedKeys
    /\ tokens_count_for_sto(KeyOf(last)) > 0

\* C10: for every token the ids that have a stored sale record are exactly
\* 0 .. sto_count(token) - 1.
C10_DenseSaleIds ==
    \A t \in Tickers :
        {k[2] : k \in {j \in DOMAIN StosByToken : j[1] = t}} =
            0..(sto_count(t) - 1)

\* C11: a purchase on either path against a (token, sale_id) for which no
\* sale has been launched fails and leaves the storage unchanged: no record
\* is created, nothing is minted and no payment is transferred.
C11_MissingSaleRejected ==
    [][IsPurchase(last') /\ KeyOf(last') \notin LaunchedKeys
           => /\ last'.result # Ok
              /\ last'.effects = <<>>
              /\ UNCHANGED storage]_vars

\* C12: the keys of the registry are canonical (upper-case), so a ticker has
\* at most one entry up to letter case; a stored entry never changes or
\* disappears; put on a ticker whose upper-cased form is registered fails
\* with "Token ticker exists" and changes nothing, put on a new ticker stores
\* the entry under the upper-cased ticker; get with any casing returns the
\* entry stored for the upper-cased ticker.
C12_RegistryUnique ==
    /\ [](\A k \in DOMAIN Tokens : k = bytes_to_upper(k))
    /\ [][/\ \A k \in DOMAIN Tokens :
                 k \in DOMAIN Tokens' /\ Tokens'[k] = Tokens[k]
          /\ last'.op = "registry_put" =>
                 LET t == bytes_to_upper(last'.args[1])
                 IN  IF \E k \in DOMAIN Tokens : bytes_to_upper(k) = t
                     THEN last'.result = TickerExists /\ Tokens' = Tokens
                     ELSE /\ last'.result = Ok
                          /\ DOMAIN Tokens' = DOMAIN Tokens \cup {t}
                          /\ Tokens'[t] = last'.args[2]
          /\ last'.op = "registry_get" =>
                 LET t == bytes_to_upper(last'.args[1])
                 IN  /\ Tokens' = Tokens
                     /\ last'.effects = IF t \in DOMAIN Tokens
                                        THEN Some(Tokens[t]) ELSE None]_vars

\* a put refused because the ticker is registered in another casing
C12_Witness ==
    /\ last.op = "registry_put"
    /\ last.result = TickerExists
    /\ last.args[1] # bytes_to_upper(last.args[1])
    /\ bytes_to_upper(last.args[1]) \in DOMAIN Tokens
    /\ Tokens[bytes_to_upper(last.args[1])] # last.args[2]

\* C13: a purchase on a launched sale transfers the payment or succeeds
\* only when the mint succeeded: a failed mint on the ERC20 path, as on the
\* native path, leaves no payment transferred and the call failed.
C13_MintFailurePropagated ==
    IsPurchase(last) /\ KeyOf(last) \in LaunchedKeys
    /\ (Paid(last) \/ last.result = Ok)
        => HasMint(last)

\* C14: for every launched sale, position p of the forward index holds
\* currency c exactly when the reverse index of c is present and equals p,
\* and the count is the number of currencies whose reverse index is present.
C14_IndexConsistent ==
    \A k \in LaunchedKeys :
        /\ \A c \in Currencies, p \in Positions :
               (allowed_tokens(<<k[1], k[2], p>>) = c)
                   <=> (token_index_for_sto(<<k[1], k[2], c>>) = Some(p))
        /\ tokens_count_for_sto(k) = Cardinality(IndexedCurrencies(k))

\* C15: modify_allowed_tokens on a launched sale fails with AlreadyStarted
\* exactly when neither now < start_date nor active = false holds, whoever
\* calls it; no step changes the allow-list items of an active launched sale
\* once now >= start_date.
C15_TimeGated ==
    [][/\ last'.op = "modify_allowed_tokens" /\ KeyOf(last') \in LaunchedKeys
              => LET sto == stos_by_token(KeyOf(last'))
                 IN  (last'.result = AlreadyStarted)
                         <=> ~(now < sto.start_date \/ ~sto.active)
       /\ \A k \in LaunchedKeys :
              stos_by_token(k).active /\ now >= stos_by_token(k).start_date
                  => AllowListOf(k)' = AllowListOf(k)]_vars

\* the owner's change refused after the start of a sale with a currency
C15_Witness ==
    /\ last.op = "modify_allowed_tokens"
    /\ last.result = AlreadyStarted
    /\ last.args[1] = Owner
    /\ KeyOf(last) \in LaunchedKeys
    /\ now >= stos_by_token(KeyOf(last)).start_date
    /\ tokens_count_for_sto(KeyOf(last)) > 0

\* C16: a purchase on either path whose payment_amount * rate, or whose
\* sold + payment_amount * rate, exceeds the maximum of the token-balance type
\* fails, by the overflow error unless an earlier check rejects it, with no
\* mint, no transfer and the storage unchanged; the overflow errors are
\* returned only for such amounts; a successful purchase stores the exact
\* sum, and every stored sold is within the range of the type.
C16_CheckedArithmetic ==
    /\ [](\A k \in SaleKeys : sold_of(k) \in 0..MaxTokenBalance)
    /\ [][IsPurchase(last') =>
              LET sto == stos_by_token(KeyOf(last'))
                  conversion == ValueOf(last') * sto.rate
              IN  /\ conversion > MaxTokenBalance
                     \/ sto.sold + conversion > MaxTokenBalance
                         => /\ last'.result \in
                                  {OverflowTokens, OverflowSold} \cup
                                      BeforeOverflowCheck
                            /\ last'.effects = <<>>
                            /\ UNCHANGED storage
                  /\ last'.result = OverflowTokens
                         => conversion > MaxTokenBalance
                  /\ last'.result = OverflowSold
                         => /\ conversion <= MaxTokenBalance
                            /\ sto.sold + conversion > MaxTokenBalance
                  /\ last'.result = Ok
                         => \A k \in SaleKeys :
                                k = KeyOf(last')
                                    => sold_of(k)' = sto.sold + conversion]_vars

\* a product beyond the range refused on a sale that has sold tokens
C16_Witness ==
    /\ IsPurchase(last)
    /\ last.result = OverflowTokens
    /\ KeyOf(last) \in LaunchedKeys
    /\ sold_of(KeyOf(last)) > 0

\* C17: no step changes the beneficiary, cap, rate, start_date or end_date of
\* a launched sale; a successful purchase writes back the record of its sale
\* with only sold changed and leaves every other sale record, the sale
\* counters and the allow-list items unchanged.
C17_TermsImmutable ==
    [][/\ \A k \in LaunchedKeys : TermsOf(k)' = TermsOf(k)
       /\ IsPurchase(last') /\ last'.result = Ok
              => /\ DOMAIN StosByToken' = DOMAIN StosByToken \cup {KeyOf(last')}
                 /\ \A j \in DOMAIN StosByToken' :
                        IF j = KeyOf(last')
                        THEN [StosByToken'[j] EXCEPT !.sold = 0] =
                                 [stos_by_token(j) EXCEPT !.sold = 0]
                        ELSE StosByToken'[j] = StosByToken[j]
                 /\ UNCHANGED <<StoCount, AllowedTokens, TokenIndexForSTO,
                                TokensCountForSto>>]_vars

\* a successful purchase on one of two launched sales, with a currency enabled
C17_Witness ==
    /\ IsPurchase(last)
    /\ last.result = Ok
    /\ KeyOf(last) \in LaunchedKeys
    /\ Cardinality(LaunchedKeys) > 1
    /\ tokens_count_for_sto(KeyOf(last)) > 0

\* C18: on a launched sale every currently enabled currency has a position
\* >= 1 in the reverse index, the forward index holds it at that position,
\* and no two enabled currencies share a position.
C18_StablePositions ==
    \A k \in LaunchedKeys :
        LET Enabled == {c \in Currencies : <<k[1], k[2], c>> \in enabled}
            position(c) == token_index_for_sto(<<k[1], k[2], c>>)
        IN  /\ \A c \in Enabled :
                   /\ position(c) # None
                   /\ position(c)[1] >= 1
                   /\ allowed_tokens(<<k[1], k[2], position(c)[1]>>) = c
            /\ \A c, d \in Enabled : c # d => position(c) # position(d)

\* C19: for a currency that was enabled and then disabled on a launched sale
\* (reverse index written, not currently enabled), the owner's enable before
\* the start succeeds and the owner's disable fails with NoChange.
C19_Repeatable ==
    [][(/\ last'.op = "modify_allowed_tokens"
        /\ asset_is_owner(KeyOf(last')[1], last'.args[1])
        /\ KeyOf(last') \in LaunchedKeys
        /\ now < stos_by_token(KeyOf(last')).start_date
        /\ CurrencyKeyOf(last') \notin enabled
        /\ CurrencyKeyOf(last') \in DOMAIN TokenIndexForSTO)
           => last'.result = IF StatusOf(last') THEN Ok ELSE NoChange]_vars

\* C20: every launched sale has active = true; a purchase on a launched sale
\* never fails with NotActive, and modify_allowed_tokens on a launched sale
\* passes the timing check only when now < start_date.
C20_AlwaysActive ==
    /\ \A k \in LaunchedKeys :
           k \in DOMAIN StosByToken /\ StosByToken[k].active = TRUE
    /\ IsPurchase(last) /\ KeyOf(last) \in LaunchedKeys
           => last.result # NotActive
    /\ last.op = "modify_allowed_tokens" /\ KeyOf(last) \in LaunchedKeys
       /\ last.result # AlreadyStarted
           => now < stos_by_token(KeyOf(last)).start_date

\* a purchase by ERC20, which checks the flag, made on a launched sale
C20_Witness ==
    /\ last.op = "buy_tokens_by_erc20"
    /\ last.result = Ok
    /\ KeyOf(last) \in LaunchedKeys
    /\ sold_of(KeyOf(last)) > 0
====
